---- MODULE Spec2Model ----
(***************************************************************************)
(* Model of the four AST passes of presentation.ipynb: ConstantFolder,     *)
(* StrengthReducer, DeadBranchEliminator (ast.NodeTransformer subclasses)  *)
(* and DeadFunctionEliminator (DeadFunctionIdentifier, an ast.NodeVisitor  *)
(* that builds a networkx DiGraph, followed by FunctionEliminator).        *)
(*                                                                         *)
(* An AST node is a record with a "type" field and the fields of the       *)
(* Python node class, in the order of its _fields.  A NodeTransformer      *)
(* rewrites the object it visits IN PLACE (generic_visit assigns the       *)
(* fields of the node and the slice old_value[:] of its lists), so a visit *)
(* is modelled by the pair of what it returns and of the state in which it *)
(* leaves the object it was given.                                         *)
(***************************************************************************)
EXTENDS Integers, Sequences, FiniteSets, TLC

VARIABLES tree, parsed, before, result, identifier, dead, log, budget

vars == <<tree, parsed, before, result, identifier, dead, log, budget>>

-----------------------------------------------------------------------------
(* Bounds of the model.                                                    *)

\* integer literals of the input programs are 0 .. MaxInt
MaxInt == 2
\* number of passes given the same parsed tree, one after the other
MaxRuns == 2

-----------------------------------------------------------------------------
(* Values of Constant nodes.  An int is n (d = 1), a bool is 0 or 1, a     *)
(* float is the fraction n/d in lowest terms with d > 0 (floats arise only *)
(* from true division; rounding is not modelled).                          *)

RECURSIVE Gcd(_, _)
Gcd(a, b) == IF b = 0 THEN a ELSE Gcd(b, a % b)

Abs(a) == IF a < 0 THEN -a ELSE a

IntV(n) == [kind |-> "int", n |-> n, d |-> 1]
BoolV(b) == [kind |-> "bool", n |-> IF b THEN 1 ELSE 0, d |-> 1]
FloatV(n, d) ==
    LET g == Gcd(Abs(n), Abs(d))
        s == IF d < 0 THEN -1 ELSE 1
    IN  [kind |-> "float", n |-> (s * n) \div g, d |-> (s * d) \div g]

\* bool(value): the truth value Python gives a number
Truthy(v) == v.n # 0

\* value == k, as the literal patterns Constant(0), Constant(1), Constant(2)
\* compare (True == 1, 2.0 == 2)
ValueEquals(v, k) == v.n = k * v.d

\* the result of an arithmetic operator: a float as soon as one operand is one
Arith(l, r, n, d) ==
    IF l.kind = "float" \/ r.kind = "float" THEN FloatV(n, d) ELSE IntV(n \div d)

-----------------------------------------------------------------------------
(* Node constructors.                                                      *)

Module(body) == [type |-> "Module", body |-> body]
FunctionDef(name, body) == [type |-> "FunctionDef", name |-> name, body |-> body]
Assign(target, value) == [type |-> "Assign", target |-> target, value |-> value]
If(test, body, orelse) == [type |-> "If", test |-> test, body |-> body, orelse |-> orelse]
Return(value) == [type |-> "Return", value |-> value]
Expr(value) == [type |-> "Expr", value |-> value]
Pass == [type |-> "Pass"]
Call(func, args) == [type |-> "Call", func |-> func, args |-> args]
Attribute(value, attr) == [type |-> "Attribute", value |-> value, attr |-> attr]
BinOp(left, op, right) == [type |-> "BinOp", left |-> left, op |-> op, right |-> right]
UnaryOp(op, operand) == [type |-> "UnaryOp", op |-> op, operand |-> operand]
Compare(left, ops, comparators) ==
    [type |-> "Compare", left |-> left, ops |-> ops, comparators |-> comparators]
Name(id) == [type |-> "Name", id |-> id]
Constant(value) == [type |-> "Constant", value |-> value]

IsConstant(node) == node.type = "Constant"

-----------------------------------------------------------------------------
(* ast.NodeTransformer.  A visit yields                                    *)
(*   raised : whether it ended in an exception (exc names it),             *)
(*   ret    : what it returned: a node, None, or a list of nodes,          *)
(*   obj    : the state in which it leaves the object it was given.        *)

RetNode(n) == [kind |-> "node", node |-> n]
RetNone == [kind |-> "none"]
RetList(ns) == [kind |-> "list", nodes |-> ns]

Returned(ret, obj) == [raised |-> FALSE, exc |-> "", ret |-> ret, obj |-> obj]
Raised(exc, obj) == [raised |-> TRUE, exc |-> exc, ret |-> RetNone, obj |-> obj]

\* the child fields of a node class, in the order of its _fields
ChildFields(node) ==
    CASE node.type = "Module" -> <<"body">>
      [] node.type = "FunctionDef" -> <<"body">>
      [] node.type = "Assign" -> <<"value">>
      [] node.type = "If" -> <<"test", "body", "orelse">>
      [] node.type = "Return" -> <<"value">>
      [] node.type = "Expr" -> <<"value">>
      [] node.type = "Call" -> <<"func", "args">>
      [] node.type = "Attribute" -> <<"value">>
      [] node.type = "BinOp" -> <<"left", "right">>
      [] node.type = "UnaryOp" -> <<"operand">>
      [] node.type = "Compare" -> <<"left", "comparators">>
      [] OTHER -> <<>>

\* isinstance(old_value, list)
ListFields == {"body", "orelse", "args", "comparators"}

\* the operators ConstantFolder.visit_BinOp has a case for
FoldOps == {"Add", "Sub", "Mult", "Div", "And", "Or"}

\* left <op> right on the values of two Constant nodes, as Python computes it
Apply(op, l, r) ==
    CASE op = "Add" -> Arith(l, r, l.n * r.d + r.n * l.d, l.d * r.d)
      [] op = "Sub" -> Arith(l, r, l.n * r.d - r.n * l.d, l.d * r.d)
      [] op = "Mult" -> Arith(l, r, l.n * r.n, l.d * r.d)
      [] op = "Div" -> FloatV(l.n * r.d, l.d * r.n)
      [] op = "And" -> IF Truthy(l) THEN r ELSE l
      [] op = "Or" -> IF Truthy(l) THEN l ELSE r

\* the match statement of ConstantFolder.visit_BinOp, on the node whose operands
\* generic_visit has already rewritten
FoldBinOp(node) ==
    IF IsConstant(node.left) /\ IsConstant(node.right) /\ node.op \in FoldOps
    THEN IF node.op = "Div" /\ node.right.value.n = 0
         THEN Raised("ZeroDivisionError", node)
         ELSE Returned(RetNode(Constant(Apply(node.op, node.left.value, node.right.value))), node)
    ELSE Returned(RetNode(node), node)

IsConstantOf(node, k) == IsConstant(node) /\ ValueEquals(node.value, k)

\* the match statement of StrengthReducer.visit_BinOp: the first case that matches
ReduceBinOp(node) ==
    CASE node.op = "Mod" /\ IsConstantOf(node.right, 2) ->
            BinOp(node.left, "BitAnd", Constant(IntV(1)))
      [] node.op = "Add" /\ IsConstantOf(node.left, 0) -> node.right
      [] node.op = "Add" /\ IsConstantOf(node.right, 0) -> node.left
      [] node.op = "Mult" /\ IsConstantOf(node.left, 1) -> node.right
      [] node.op = "Mult" /\ IsConstantOf(node.right, 1) -> node.left
      [] node.op = "Sub" /\ IsConstantOf(node.left, 0) -> UnaryOp("USub", node.right)
      [] OTHER -> node

\* the match statement of DeadBranchEliminator.visit_If
ChooseBranch(node) ==
    IF IsConstant(node.test)
    THEN RetList(IF Truthy(node.test.value) THEN node.body ELSE node.orelse)
    ELSE RetNode(node)

\* the nodes a returned value contributes to new_values
RetNodes(ret) ==
    CASE ret.kind = "node" -> <<ret.node>>
      [] ret.kind = "none" -> <<>>
      [] ret.kind = "list" -> ret.nodes

\* setattr(node, field, new_node), or delattr(node, field) when the visit gave None
SetField(node, f, ret) ==
    CASE ret.kind = "node" -> [node EXCEPT ![f] = ret.node]
      [] ret.kind = "none" -> [g \in DOMAIN node \ {f} |-> node[g]]
      [] ret.kind = "list" -> [node EXCEPT ![f] = ret.nodes]

RECURSIVE Visit(_, _)
RECURSIVE VisitList(_, _, _, _)
RECURSIVE VisitFields(_, _, _)

\* the loop over a list field: objs are the elements met so far as the visit
\* left them, news is new_values; the list is overwritten only once the loop ends
VisitList(t, rest, objs, news) ==
    IF rest = <<>>
    THEN [raised |-> FALSE, exc |-> "", list |-> news]
    ELSE LET r == Visit(t, Head(rest))
         IN  IF r.raised
             THEN [raised |-> TRUE, exc |-> r.exc,
                   list |-> objs \o <<r.obj>> \o Tail(rest)]
             ELSE VisitList(t, Tail(rest), objs \o <<r.obj>>, news \o RetNodes(r.ret))

\* the loop of generic_visit over the fields of node
VisitFields(t, node, fields) ==
    IF fields = <<>>
    THEN Returned(RetNode(node), node)
    ELSE LET f == Head(fields)
         IN  IF f \in ListFields
             THEN LET r == VisitList(t, node[f], <<>>, <<>>)
                      n == [node EXCEPT ![f] = r.list]
                  IN  IF r.raised THEN Raised(r.exc, n)
                      ELSE VisitFields(t, n, Tail(fields))
             ELSE LET r == Visit(t, node[f])
                  IN  IF r.raised THEN Raised(r.exc, [node EXCEPT ![f] = r.obj])
                      ELSE VisitFields(t, SetField(node, f, r.ret), Tail(fields))

\* mutant of GenericVisit: a transformer that builds the rewritten node and
\* leaves the object it was given as it was
GenericVisitCopy(t, node) ==
    LET g == VisitFields(t, node, ChildFields(node))
    IN  IF g.raised THEN g ELSE Returned(g.ret, node)

GenericVisit(t, node) == VisitFields(t, node, ChildFields(node))

\* mutant of FoldVisitBinOp: the match comes before generic_visit, so a parent is
\* matched against operands not folded yet
FoldVisitBinOpTopDown(t, node) ==
    LET m == FoldBinOp(node)
    IN  IF m.raised \/ m.ret # RetNode(node) THEN m ELSE GenericVisit(t, node)

\* ConstantFolder.visit_BinOp
FoldVisitBinOp(t, node) ==
    LET g == GenericVisit(t, node)
    IN  IF g.raised THEN g ELSE FoldBinOp(g.obj)

\* StrengthReducer.visit_BinOp
ReduceVisitBinOp(t, node) ==
    LET g == GenericVisit(t, node)
    IN  IF g.raised THEN g ELSE Returned(RetNode(ReduceBinOp(g.obj)), g.obj)

\* mutant of VisitIf: generic_visit is left out, so the chosen branch is spliced
\* as it was
VisitIfShallow(t, node) == Returned(ChooseBranch(node), node)

\* DeadBranchEliminator.visit_If
VisitIf(t, node) ==
    LET g == GenericVisit(t, node)
    IN  IF g.raised THEN g ELSE Returned(ChooseBranch(g.obj), g.obj)

\* FunctionEliminator.visit_FunctionDef
EliminateVisitFunctionDef(t, node) ==
    IF node.name \in t.fns THEN Returned(RetNone, node) ELSE GenericVisit(t, node)

\* NodeVisitor.visit: the visit_<class> method of the transformer, or generic_visit
Visit(t, node) ==
    CASE t.cls = "ConstantFolder" /\ node.type = "BinOp" -> FoldVisitBinOp(t, node)
      [] t.cls = "StrengthReducer" /\ node.type = "BinOp" -> ReduceVisitBinOp(t, node)
      [] t.cls = "DeadBranchEliminator" /\ node.type = "If" -> VisitIf(t, node)
      [] t.cls = "FunctionEliminator" /\ node.type = "FunctionDef" ->
            EliminateVisitFunctionDef(t, node)
      [] OTHER -> GenericVisit(t, node)

ConstantFolder == [cls |-> "ConstantFolder", fns |-> {}]
StrengthReducer == [cls |-> "StrengthReducer", fns |-> {}]
DeadBranchEliminator == [cls |-> "DeadBranchEliminator", fns |-> {}]
FunctionEliminator(fns) == [cls |-> "FunctionEliminator", fns |-> fns]

-----------------------------------------------------------------------------
(* DeadFunctionIdentifier, an ast.NodeVisitor.  Its state is the DiGraph   *)
(* (nodes, edges) and current_fn, which holds the string "start" or the    *)
(* FunctionDef node being traversed.                                       *)

Str(s) == [type |-> "str", s |-> s]

\* DeadFunctionIdentifier.__init__
IdentifierInit == [nodes |-> {"start"}, edges |-> {}, current_fn |-> Str("start")]

\* mutant of AddCallEdge: a call counts only when its target is already a node
\* of the graph
AddCallEdgeDefinedOnly(st, node) ==
    IF node.func.type = "Name" /\ st.current_fn.type \in {"FunctionDef", "str"}
       /\ node.func.id \in st.nodes
    THEN LET current_fn == IF st.current_fn.type = "FunctionDef"
                           THEN st.current_fn.name ELSE st.current_fn.s
         IN  [st EXCEPT !.edges = @ \cup {<<current_fn, node.func.id>>}]
    ELSE st

\* the match statement of DeadFunctionIdentifier.visit_Call
AddCallEdge(st, node) ==
    IF node.func.type = "Name" /\ st.current_fn.type \in {"FunctionDef", "str"}
    THEN LET current_fn == IF st.current_fn.type = "FunctionDef"
                           THEN st.current_fn.name ELSE st.current_fn.s
             target == node.func.id
         IN  [st EXCEPT !.nodes = @ \cup {current_fn, target},
                        !.edges = @ \cup {<<current_fn, target>>}]
    ELSE st

RECURSIVE Identify(_, _)
RECURSIVE IdentifyList(_, _)
RECURSIVE IdentifyFields(_, _, _)

IdentifyList(st, list) ==
    IF list = <<>> THEN st ELSE IdentifyList(Identify(st, Head(list)), Tail(list))

\* NodeVisitor.generic_visit
IdentifyFields(st, node, fields) ==
    IF fields = <<>> THEN st
    ELSE LET f == Head(fields)
             s1 == IF f \in ListFields THEN IdentifyList(st, node[f])
                   ELSE Identify(st, node[f])
         IN  IdentifyFields(s1, node, Tail(fields))

IdentifyGeneric(st, node) == IdentifyFields(st, node, ChildFields(node))

\* mutant of IdentifyFunctionDef: current_fn is not restored on leaving
IdentifyFunctionDefNoRestore(st, node) ==
    IdentifyGeneric([st EXCEPT !.nodes = @ \cup {node.name}, !.current_fn = node], node)

\* DeadFunctionIdentifier.visit_FunctionDef
IdentifyFunctionDef(st, node) ==
    LET parent_fn == st.current_fn
        s1 == [st EXCEPT !.nodes = @ \cup {node.name}, !.current_fn = node]
        s2 == IdentifyGeneric(s1, node)
    IN  [s2 EXCEPT !.current_fn = parent_fn]

\* DeadFunctionIdentifier.visit_Call
IdentifyCall(st, node) == IdentifyGeneric(AddCallEdge(st, node), node)

\* NodeVisitor.visit of the identifier
Identify(st, node) ==
    CASE node.type = "FunctionDef" -> IdentifyFunctionDef(st, node)
      [] node.type = "Call" -> IdentifyCall(st, node)
      [] OTHER -> IdentifyGeneric(st, node)

\* nx.descendants(graph, source): the nodes a path of one edge or more leads to
RECURSIVE Closure(_, _)
Closure(edges, seen) ==
    LET more == seen \cup {e[2] : e \in {d \in edges : d[1] \in seen}}
    IN  IF more = seen THEN seen ELSE Closure(edges, more)

\* mutant of Descendants: the successors of source only
DescendantsDirect(graph, source) ==
    {e[2] : e \in {d \in graph.edges : d[1] = source}} \ {source}

Descendants(graph, source) ==
    Closure(graph.edges, {e[2] : e \in {d \in graph.edges : d[1] = source}}) \ {source}

\* mutant of GetUnreachable: a function is dead when nothing calls it
GetUnreachableUncalled(node) ==
    LET graph == Identify(IdentifierInit, node)
    IN  graph.nodes \ ({e[2] : e \in graph.edges} \cup {"start"})

\* DeadFunctionIdentifier.get_unreachable (the drawing of the graph left out)
GetUnreachable(node) ==
    LET graph == Identify(IdentifierInit, node)
        reachable == Descendants(graph, "start") \cup {"start"}
    IN  graph.nodes \ reachable

\* DeadFunctionEliminator.visit
DeadFunctionEliminatorVisit(node) ==
    LET unreachable_fns == GetUnreachable(node)
    IN  Visit(FunctionEliminator(unreachable_fns), node)

-----------------------------------------------------------------------------
(* The input programs: the Module trees given to the passes.               *)

IntLeaves == {Constant(IntV(i)) : i \in 0 .. MaxInt}
BoolLeaves == {Constant(BoolV(b)) : b \in BOOLEAN}
ArithLeaves == IntLeaves \cup {Name("x")}
Leaves == ArithLeaves \cup BoolLeaves

\* the operators of the input BinOps: those visit_BinOp has a case for (And and Or
\* under a BinOp are trees built by hand; ast.parse gives a BoolOp for them), and Mod
InputOps == {"Add", "Sub", "Mult", "Div", "And", "Or", "Mod"}
InnerOps == {"Add", "Sub", "Mult", "Div"}
OuterOps == {"Add", "Sub", "Mult", "Div", "Mod"}

\* l <op> r over the leaves
FlatExprs == {BinOp(l, op, r) : l \in Leaves, op \in InputOps, r \in Leaves}
InnerExprs == {BinOp(l, op, r) : l \in ArithLeaves, op \in InnerOps, r \in ArithLeaves}
\* (l <op> r) <op> c and c <op> (l <op> r)
NestedExprs ==
    {BinOp(e, op, c) : e \in InnerExprs, op \in OuterOps, c \in ArithLeaves}
    \cup {BinOp(c, op, e) : e \in InnerExprs, op \in OuterOps, c \in ArithLeaves}

\* y = <expr>
ExprModules == {Module(<<Assign("y", e)>>) : e \in Leaves \cup FlatExprs \cup NestedExprs}

SimpleStmts == {Pass} \cup {Assign("y", c) : c \in IntLeaves}
Tests == Leaves \cup {BinOp(Constant(IntV(0)), "Add", Constant(IntV(1))),
                      BinOp(Name("x"), "Mod", Constant(IntV(2)))}
\* an if nested in a branch
InnerIfs == {If(c, <<Assign("y", Name("x"))>>, e) :
                c \in BoolLeaves \cup {Name("x")}, e \in {<<>>, <<Pass>>}}
Branches == {<<s>> : s \in SimpleStmts} \cup {<<i, Return(Name("y"))>> : i \in InnerIfs}
ElseBranches == {<<>>} \cup Branches

\* x = 5; if <test>: ... else: ...; return y  inside def main(), and at top level
BranchModules ==
    {Module(<<FunctionDef("main",
                <<Assign("x", Constant(IntV(MaxInt))), If(c, b, e), Return(Name("y"))>>)>>) :
        c \in Tests, b \in Branches, e \in ElseBranches}
    \cup {Module(<<If(c, b, e), Expr(Call(Name("print"), <<Name("y")>>))>>) :
        c \in Tests, b \in Branches, e \in ElseBranches}

FunctionNames == <<"f", "g", "h", "start">>
Callees == {FunctionNames[i] : i \in DOMAIN FunctionNames} \cup {"print"}
CallStmt(target) == Expr(Call(Name(target), <<>>))
\* the one statement of a function body
BodyStmts == {Pass} \cup {CallStmt(c) : c \in Callees}
\* the statements after the definitions
TopLevels ==
    {<<>>} \cup {<<CallStmt(c)>> : c \in Callees}
    \cup {<<Assign("y", Call(Name(c), <<Name("x")>>)), CallStmt("print")>> : c \in {"f", "print"}}

\* the definitions of the names chosen by pick, in the order of FunctionNames
RECURSIVE Defs(_, _)
Defs(i, body) ==
    IF i > Len(FunctionNames) THEN <<>>
    ELSE (IF FunctionNames[i] \in DOMAIN body
          THEN <<FunctionDef(FunctionNames[i], <<body[FunctionNames[i]]>>)>> ELSE <<>>)
         \o Defs(i + 1, body)

FunctionBodies ==
    UNION {[names -> BodyStmts] :
             names \in {n \in SUBSET Callees : n # {} /\ "print" \notin n /\ Cardinality(n) < 4}}

FunctionModules == {Module(Defs(1, body) \o top) : body \in FunctionBodies, top \in TopLevels}

\* the programs of the notebook: cf_code, db_code, dc_code
CfCode ==
    Module(<<FunctionDef("main", <<
        Assign("x", Constant(IntV(5))),
        Assign("y", BinOp(BinOp(Constant(IntV(1)), "Add", Constant(IntV(1))), "Add",
                          Constant(IntV(3)))),
        If(Compare(Name("x"), <<"Gt">>, <<Constant(IntV(0))>>),
           <<Assign("y", BinOp(Constant(IntV(10)), "Mult", Constant(IntV(10))))>>,
           <<Assign("y", Constant(IntV(20)))>>),
        Return(Name("y"))>>)>>)

DbCode ==
    Module(<<FunctionDef("main", <<
        Assign("x", Constant(IntV(5))),
        Assign("y", BinOp(BinOp(Constant(IntV(1)), "Add", Constant(IntV(1))), "Add",
                          Constant(IntV(3)))),
        If(Constant(BoolV(FALSE)),
           <<Assign("y", BinOp(Constant(IntV(10)), "Mult", Constant(IntV(10))))>>,
           <<Assign("y", Constant(IntV(20)))>>),
        Return(Name("y"))>>)>>)

DcCode ==
    Module(<<FunctionDef("h", <<CallStmt("g")>>), FunctionDef("f", <<CallStmt("h")>>),
             FunctionDef("g", <<CallStmt("h")>>), FunctionDef("main", <<CallStmt("h")>>),
             CallStmt("main")>>)

\* further shapes: a method call, a call in an argument, a nested definition,
\* a call before the definitions, a definition under an if
OtherModules == {
    Module(<<FunctionDef("f", <<Expr(Call(Attribute(Name("x"), "g"), <<>>))>>),
             FunctionDef("g", <<Pass>>), CallStmt("f")>>),
    Module(<<FunctionDef("f", <<Pass>>), FunctionDef("g", <<CallStmt("h")>>),
             Expr(Call(Name("print"), <<Call(Name("f"), <<>>)>>))>>),
    Module(<<FunctionDef("f", <<FunctionDef("g", <<CallStmt("h")>>), CallStmt("g")>>),
             FunctionDef("h", <<Pass>>), CallStmt("f")>>),
    Module(<<FunctionDef("f", <<FunctionDef("g", <<CallStmt("h")>>), Return(Name("g"))>>),
             FunctionDef("h", <<Pass>>), CallStmt("f")>>),
    Module(<<CallStmt("g"), FunctionDef("f", <<CallStmt("h")>>), Assign("y", Name("x")),
             FunctionDef("g", <<Pass>>), FunctionDef("h", <<Pass>>)>>),
    Module(<<If(Constant(BoolV(FALSE)), <<FunctionDef("f", <<Pass>>)>>,
                <<FunctionDef("g", <<Pass>>)>>), CallStmt("f"), CallStmt("g")>>),
    Module(<<Assign("y", UnaryOp("USub", BinOp(Constant(IntV(1)), "Sub", Constant(IntV(2)))))>>),
    Module(<<>>)}

Modules ==
    ExprModules \cup BranchModules \cup FunctionModules \cup OtherModules
    \cup {CfCode, DbCode, DcCode}

\* the programs given to more than one pass
RerunModules ==
    {Module(<<Assign("y", e)>>) : e \in InnerExprs}
    \cup {m \in BranchModules : m.body[1].type = "If" /\ m.body[1].test.type # "Name"
                                /\ Len(m.body[1].body) = 2 /\ Len(m.body[1].orelse) < 2}
    \cup {m \in FunctionModules : Len(m.body) = 3 /\ m.body[3] = CallStmt("f")
                                  /\ m.body[1].body[1] \in {Pass, CallStmt("h")}}
    \cup OtherModules \cup {CfCode, DbCode, DcCode}

-----------------------------------------------------------------------------
(* The state: tree is the Module object the caller holds, parsed is what   *)
(* it was when ast.parse gave it, before is what it was when the last pass *)
(* was called, result is what that pass returned (or that it raised),      *)
(* identifier is the DeadFunctionIdentifier of the last                    *)
(* DeadFunctionEliminator.visit once it has traversed the tree, dead is    *)
(* the set its get_unreachable returned, log names the passes run on tree, *)
(* budget is how many passes the caller gives it to.                       *)

NoResult == [raised |-> FALSE, exc |-> "", ret |-> RetNone]

Init ==
    /\ \/ tree \in Modules /\ budget = 1
       \/ tree \in RerunModules /\ budget = MaxRuns
    /\ parsed = tree
    /\ before = tree
    /\ result = NoResult
    /\ identifier = IdentifierInit
    /\ dead = {}
    /\ log = <<>>

\* the caller's  Transformer().visit(tree)
Ran(name, r) ==
    /\ tree' = r.obj
    /\ before' = tree
    /\ result' = [raised |-> r.raised, exc |-> r.exc, ret |-> r.ret]
    /\ log' = Append(log, name)
    /\ UNCHANGED <<parsed, budget>>

ConstantFolderVisit ==
    /\ Len(log) < budget
    /\ Ran("ConstantFolder", Visit(ConstantFolder, tree))
    /\ UNCHANGED <<identifier, dead>>

StrengthReducerVisit ==
    /\ Len(log) < budget
    /\ Ran("StrengthReducer", Visit(StrengthReducer, tree))
    /\ UNCHANGED <<identifier, dead>>

DeadBranchEliminatorVisit ==
    /\ Len(log) < budget
    /\ Ran("DeadBranchEliminator", Visit(DeadBranchEliminator, tree))
    /\ UNCHANGED <<identifier, dead>>

DeadFunctionEliminatorRun ==
    /\ Len(log) < budget
    /\ Ran("DeadFunctionEliminator", DeadFunctionEliminatorVisit(tree))
    /\ identifier' = Identify(IdentifierInit, tree)
    /\ dead' = GetUnreachable(tree)

Next ==
    \/ ConstantFolderVisit
    \/ StrengthReducerVisit
    \/ DeadBranchEliminatorVisit
    \/ DeadFunctionEliminatorRun

Spec == Init /\ [][Next]_vars

-----------------------------------------------------------------------------
(* What the claims speak of.                                               *)

\* the last pass run on tree was p
RanPass(p) == log # <<>> /\ log[Len(log)] = p

\* the child nodes of a node
Children(node) ==
    LET fs == ChildFields(node)
    IN  UNION {IF fs[i] \in ListFields
               THEN {node[fs[i]][j] : j \in DOMAIN node[fs[i]]}
               ELSE {node[fs[i]]} : i \in DOMAIN fs}

\* the tree holds a true division
RECURSIVE HasDivision(_)
HasDivision(node) ==
    (node.type = "BinOp" /\ node.op = "Div") \/ \E k \in Children(node) : HasDivision(k)

\* the names of the FunctionDef statements anywhere in a tree
RECURSIVE FunctionDefNames(_)
FunctionDefNames(node) ==
    (IF node.type = "FunctionDef" THEN {node.name} ELSE {})
    \cup UNION {FunctionDefNames(k) : k \in Children(node)}

\* The call graph as the specification defines it: its nodes are a synthetic
\* entry node and the function names, kept apart by a tag.
Entry == <<"entry">>
Fn(name) == <<"fn", name>>

\* the direct-call edges of a subtree whose enclosing caller is c
RECURSIVE DirectCalls(_, _)
DirectCalls(node, c) ==
    LET inner == IF node.type = "FunctionDef" THEN Fn(node.name) ELSE c
        own == IF node.type = "Call" /\ node.func.type = "Name"
               THEN {<<c, Fn(node.func.id)>>} ELSE {}
    IN  own \cup UNION {DirectCalls(k, inner) : k \in Children(node)}

RECURSIVE ReachableFrom(_, _)
ReachableFrom(edges, seen) ==
    LET more == seen \cup {e[2] : e \in {d \in edges : d[1] \in seen}}
    IN  IF more = seen THEN seen ELSE ReachableFrom(edges, more)

\* the function names reachable from the entry node by direct-call edges
LiveNames(module) ==
    {n \in FunctionDefNames(module) :
        Fn(n) \in ReachableFrom(DirectCalls(module, Entry), {Entry})}

\* a tree without the FunctionDef statements whose name is not in live
RECURSIVE Prune(_, _)
RECURSIVE PruneList(_, _)
PruneList(list, live) ==
    IF list = <<>> THEN <<>>
    ELSE (IF Head(list).type = "FunctionDef" /\ Head(list).name \notin live
          THEN <<>> ELSE <<Prune(Head(list), live)>>)
         \o PruneList(Tail(list), live)
Prune(node, live) ==
    LET fs == ChildFields(node)
        kids == {fs[i] : i \in DOMAIN fs}
    IN  [f \in DOMAIN node |->
            IF f \notin kids THEN node[f]
            ELSE IF f \in ListFields THEN PruneList(node[f], live)
            ELSE Prune(node[f], live)]

\* C1: DeadFunctionEliminator.visit returns the module without exactly the
\* FunctionDef statements whose name is not reachable from the entry node by
\* direct-call edges; every other statement is kept, in its original order.
C1_ExactlyUnreachableDeleted ==
    RanPass("DeadFunctionEliminator") =>
        /\ ~result.raised
        /\ result.ret = RetNode(Prune(before, LiveNames(before)))

\* the same, for the modules that define no function called "start"
C1_HoldsWithoutStart ==
    RanPass("DeadFunctionEliminator") /\ "start" \notin FunctionDefNames(before) =>
        /\ ~result.raised
        /\ result.ret = RetNode(Prune(before, LiveNames(before)))

\* the module defines f, g and h and nothing else; top-level code calls f, g calls
\* h, h calls g, and neither g nor h is called from f or from top-level code
MutualRecursionScenario(module) ==
    LET calls == DirectCalls(module, Entry)
    IN  /\ FunctionDefNames(module) = {"f", "g", "h"}
        /\ {<<Entry, Fn("f")>>, <<Fn("g"), Fn("h")>>, <<Fn("h"), Fn("g")>>} \subseteq calls
        /\ \A c \in {Entry, Fn("f")}, d \in {Fn("g"), Fn("h")} : <<c, d>> \notin calls

\* C2: in a module whose functions are f (called from top-level code), g and
\* h, where g and h call each other and neither is called from f or from
\* top-level code, DeadFunctionEliminator.visit removes g and h and retains f.
C2_UnreachedCycleEliminated ==
    RanPass("DeadFunctionEliminator") /\ MutualRecursionScenario(before) =>
        /\ ~result.raised
        /\ FunctionDefNames(result.ret.node) = {"f"}

C2_Witness ==
    /\ RanPass("DeadFunctionEliminator")
    /\ MutualRecursionScenario(before)
    /\ FunctionDefNames(tree) = {"f"}
    /\ {"g", "h"} \subseteq dead

RECURSIVE HasType(_, _)
HasType(node, type) ==
    node.type = type \/ \E k \in Children(node) : HasType(k, type)

RuleClass(p) ==
    CASE p \in {"ConstantFolder", "StrengthReducer"} -> "BinOp"
      [] p = "DeadBranchEliminator" -> "If"
      [] p = "DeadFunctionEliminator" -> "FunctionDef"

\* C4: every pass is total: on every well-formed tree whose constants are
\* integers or booleans, with every operator including Div, the pass returns a
\* tree and never ends in an error; a tree with no node that a rule matches is
\* returned unchanged.
C4_NeverRaises ==
    log # <<>> =>
        /\ ~result.raised
        /\ result.ret.kind = "node"
        /\ ~HasType(before, RuleClass(log[Len(log)])) => result.ret.node = before

\* the expression of a module that is  y = <expression>
IsExprModule(module) == Len(module.body) = 1 /\ module.body[1].type = "Assign"
ExprOf(module) == module.body[1].value

ArithOps == {"Add", "Sub", "Mult"}

\* an expression whose leaves are integer constants and whose operators are all
\* in {Add, Sub, Mult}, and its arithmetic value
RECURSIVE IsIntArith(_)
IsIntArith(e) ==
    \/ IsConstant(e) /\ e.value.kind = "int"
    \/ e.type = "BinOp" /\ e.op \in ArithOps /\ IsIntArith(e.left) /\ IsIntArith(e.right)

RECURSIVE ArithValue(_)
ArithValue(e) ==
    IF IsConstant(e) THEN e.value.n
    ELSE CASE e.op = "Add" -> ArithValue(e.left) + ArithValue(e.right)
           [] e.op = "Sub" -> ArithValue(e.left) - ArithValue(e.right)
           [] e.op = "Mult" -> ArithValue(e.left) * ArithValue(e.right)

\* One ConstantFolder pass gives one Constant with the value of the whole
\* expression when it is integer arithmetic, and otherwise gives a BinOp that, with
\* its operands rewritten, has a non-constant operand or an operator outside ops
\* back with only its operands rewritten.
FoldsCompletely(ops) ==
    RanPass("ConstantFolder") /\ IsExprModule(before) =>
        LET e == ExprOf(before)
        IN  /\ IsIntArith(e) =>
                /\ ~result.raised
                /\ result.ret = RetNode(Module(<<Assign(before.body[1].target,
                                                        Constant(IntV(ArithValue(e))))>>))
            /\ e.type = "BinOp" /\ ~result.raised =>
                LET l == Visit(ConstantFolder, e.left).ret.node
                    r == Visit(ConstantFolder, e.right).ret.node
                IN  ~IsConstant(l) \/ ~IsConstant(r) \/ e.op \notin ops =>
                        ExprOf(result.ret.node) = BinOp(l, e.op, r)

RECURSIVE SpliceList(_)
RECURSIVE Splice(_)
SpliceList(stmts) ==
    IF stmts = <<>> THEN <<>>
    ELSE LET s == Head(stmts)
         IN  (IF s.type = "If" /\ IsConstant(s.test)
              THEN SpliceList(IF s.test.value.n # 0 THEN s.body ELSE s.orelse)
              ELSE <<Splice(s)>>)
             \o SpliceList(Tail(stmts))
Splice(s) ==
    CASE s.type = "If" -> If(s.test, SpliceList(s.body), SpliceList(s.orelse))
      [] s.type = "FunctionDef" -> FunctionDef(s.name, SpliceList(s.body))
      [] s.type = "Module" -> Module(SpliceList(s.body))
      [] OTHER -> s

RECURSIVE HasConstantIf(_)
HasConstantIf(node) ==
    \/ node.type = "If" /\ IsConstant(node.test)
    \/ \E k \in Children(node) : HasConstantIf(k)

\* C6: DeadBranchEliminator.visit replaces every If whose test is a Constant by
\* the rewritten statements of its body (truthy constant) or of its orelse, at the
\* position of the If and in their order, leaving the statements around it and
\* the Ifs with another test in place; the output has no If with a Constant test.
C6_BranchSpliced ==
    RanPass("DeadBranchEliminator") =>
        /\ ~result.raised
        /\ result.ret = RetNode(Splice(before))
        /\ ~HasConstantIf(result.ret.node)

C6_Witness ==
    /\ RanPass("DeadBranchEliminator")
    /\ before.body # <<>>
    /\ before.body[1].type = "If"
    /\ IsConstant(before.body[1].test)
    /\ before.body[1].test.value.n # 0
    /\ before.body[1].body[1].type = "If"
    /\ IsConstant(before.body[1].body[1].test)
    /\ Len(before.body) > 1
    /\ tree = Splice(before)
    /\ tree # before

\* the modules that differ from module only in the order of its FunctionDef
\* statements
DefPermutations(module) ==
    LET body == module.body
        defs == {i \in DOMAIN body : body[i].type = "FunctionDef"}
        perms == {p \in [defs -> defs] : \A i \in defs : \E j \in defs : p[j] = i}
    IN  {Module([i \in DOMAIN body |-> IF i \in defs THEN body[p[i]] ELSE body[i]]) :
            p \in perms}

\* C7: for every permutation of the FunctionDef statements of a module,
\* get_unreachable returns the same set of dead names and
\* DeadFunctionEliminator.visit retains the same set of functions.
C7_OrderIndependent ==
    RanPass("DeadFunctionEliminator") =>
        \A m \in DefPermutations(before) :
            /\ GetUnreachable(m) = dead
            /\ FunctionDefNames(DeadFunctionEliminatorVisit(m).ret.node)
                   = FunctionDefNames(result.ret.node)

C7_Witness ==
    /\ RanPass("DeadFunctionEliminator")
    /\ Cardinality(DefPermutations(before)) > 2
    /\ dead \cap FunctionDefNames(before) # {}
    /\ FunctionDefNames(tree) # {}
    /\ \A m \in DefPermutations(before) : GetUnreachable(m) = dead

\* the name the identifier gives a node of the call graph: "start" for entry
Label(n) == IF n = Entry THEN "start" ELSE n[2]

\* the direct-call edges of a module, between the names the identifier uses
LabelledCalls(module) ==
    {<<Label(e[1]), Label(e[2])>> : e \in DirectCalls(module, Entry)}

\* C8: the call graph holds the edge (a, b) exactly when a Call whose callee is
\* the name b occurs with a as its innermost enclosing FunctionDef name, or
\* outside every function with a = entry (the node "start"); the cursor is back
\* at entry once the traversal ends; calls in the arguments of a call count.
C8_EdgesAreDirectCalls ==
    RanPass("DeadFunctionEliminator") =>
        /\ identifier.edges = LabelledCalls(before)
        /\ identifier.current_fn = Str("start")

C8_Witness ==
    /\ RanPass("DeadFunctionEliminator")
    /\ before.body # <<>>
    /\ before.body[1].type = "FunctionDef"
    /\ identifier.edges = {<<"g", "h">>, <<"start", "print">>, <<"start", "f">>}

C10_EntryIsSynthetic ==
    RanPass("DeadFunctionEliminator") =>
        \A n \in FunctionDefNames(before) \ LiveNames(before) :
            n \in dead /\ n \notin FunctionDefNames(result.ret.node)

====
